---------------------------- MODULE Spec2Model ----------------------------
(***************************************************************************)
(* The GLTF -> GLB converter of room-craft-3d                               *)
(* (src/src/components/canvas/AttachedRoom.tsx, GltfToGlbConverter) and the *)
(* room store with its undo history (src/src/components/panels/Toolbar.tsx, *)
(* useRoomStore).                                                           *)
(*                                                                          *)
(* Text is a sequence of character codes (UTF-16 code units below 0x800),   *)
(* binary data a sequence of bytes 0..255.  An optional value is a sequence *)
(* of length 0 (absent / null / undefined) or 1 (present).                  *)
(***************************************************************************)
EXTENDS Integers, Sequences, FiniteSets, TLC

VARIABLES files, converting, glbBlob, glbName, toast, conv, inFlight,
          store, saveCount

\* The converter dialog: its React state, the last toast, the latest call of
\* convertToGlb and the number of calls suspended at an await.
dialogVars == <<files, converting, glbBlob, glbName, toast, conv, inFlight>>

\* The room store (useRoomStore) and the number of snapshots pushed so far.
storeVars == <<store, saveCount>>

vars == <<files, converting, glbBlob, glbName, toast, conv, inFlight,
          store, saveCount>>

\* ------------------------------------------------------------------ bounds

\* Most descriptors, buffers and images together, of a source document.
MaxRefs == 3

\* --------------------------------------------------------- optional values

None == <<>>

Some(x) == <<x>>

\* ------------------------------------------------------------------- texts

RECURSIVE FlattenRange(_, _, _)
\* The concatenation of ss[lo..hi], by halves.
FlattenRange(ss, lo, hi) ==
  IF lo > hi THEN <<>>
  ELSE IF lo = hi THEN ss[lo]
  ELSE LET mid == (lo + hi) \div 2
       IN  FlattenRange(ss, lo, mid) \o FlattenRange(ss, mid + 1, hi)

\* The concatenation of a sequence of texts.
Flatten(ss) == FlattenRange(ss, 1, Len(ss))

\* Array.prototype.join as JSON.stringify uses it for the members of a list.
Join(ss, sep) ==
  Flatten([i \in 1..Len(ss) |-> IF i = 1 THEN ss[i] ELSE sep \o ss[i]])

\* "data:"
DataPrefix == <<100, 97, 116, 97, 58>>

\* String.prototype.startsWith
StartsWith(s, p) == Len(s) >= Len(p) /\ SubSeq(s, 1, Len(p)) = p

\* String.prototype.toLowerCase on one code unit (A-Z; the other code units
\* of the names used here have no lower-case form of their own).
LowerChar(c) == IF c >= 65 /\ c <= 90 THEN c + 32 ELSE c

toLowerCase(s) == [i \in 1..Len(s) |-> LowerChar(s[i])]

\* The positions of '.' in a text.
DotPositions(s) == {i \in 1..Len(s) : s[i] = 46}

\* s.split('.').pop(): the text after the last '.', the whole text when
\* there is none.
SplitDotPop(s) ==
  IF DotPositions(s) = {} THEN s
  ELSE LET last == CHOOSE i \in DotPositions(s) : \A j \in DotPositions(s) : j <= i
       IN  SubSeq(s, last + 1, Len(s))

ExtGltf == <<103, 108, 116, 102>>
ExtBin  == <<98, 105, 110>>
ExtPng  == <<112, 110, 103>>
ExtJpg  == <<106, 112, 103>>
ExtJpeg == <<106, 112, 101, 103>>
ExtWebp == <<119, 101, 98, 112>>

\* getFileType: 'gltf' | 'bin' | 'texture' from the file name's extension.
getFileType(name) ==
  LET ext == SplitDotPop(toLowerCase(name))
  IN  IF ext = ExtGltf THEN "gltf"
      ELSE IF ext = ExtBin THEN "bin"
      ELSE "texture"

MimePng   == <<105, 109, 97, 103, 101, 47, 112, 110, 103>>
MimeJpeg  == <<105, 109, 97, 103, 101, 47, 106, 112, 101, 103>>
MimeWebp  == <<105, 109, 97, 103, 101, 47, 119, 101, 98, 112>>
MimeOctet == <<97, 112, 112, 108, 105, 99, 97, 116, 105, 111, 110, 47, 111, 99,
               116, 101, 116, 45, 115, 116, 114, 101, 97, 109>>

\* Mutant: the 'jpeg' case is missing from the switch.
getMimeTypeWithoutJpeg(filename) ==
  LET ext == SplitDotPop(toLowerCase(filename))
  IN  IF ext = ExtPng THEN MimePng
      ELSE IF ext = ExtJpg THEN MimeJpeg
      ELSE IF ext = ExtWebp THEN MimeWebp
      ELSE MimeOctet

\* getMimeType: the MIME type of a texture from its file name's extension.
getMimeType(filename) ==
  LET ext == SplitDotPop(toLowerCase(filename))
  IN  IF ext = ExtPng THEN MimePng
      ELSE IF ext = ExtJpg \/ ext = ExtJpeg THEN MimeJpeg
      ELSE IF ext = ExtWebp THEN MimeWebp
      ELSE MimeOctet

\* The base64 alphabet of btoa (RFC 4648): A-Z a-z 0-9 + /
B64Char(n) ==
  IF n < 26 THEN 65 + n
  ELSE IF n < 52 THEN 97 + (n - 26)
  ELSE IF n < 62 THEN 48 + (n - 52)
  ELSE IF n = 62 THEN 43
  ELSE 47

\* The four characters btoa makes of a group of one, two or three bytes.
B64Group(g) ==
  IF Len(g) = 1 THEN
    <<B64Char(g[1] \div 4), B64Char((g[1] % 4) * 16), 61, 61>>
  ELSE IF Len(g) = 2 THEN
    <<B64Char(g[1] \div 4),
      B64Char((g[1] % 4) * 16 + g[2] \div 16),
      B64Char((g[2] % 16) * 4), 61>>
  ELSE
    <<B64Char(g[1] \div 4),
      B64Char((g[1] % 4) * 16 + g[2] \div 16),
      B64Char((g[2] % 16) * 4 + g[3] \div 64),
      B64Char(g[3] % 64)>>

\* btoa on a binary string: three bytes make four characters, the tail is
\* padded with '='.
btoa(bytes) ==
  Flatten([k \in 1..((Len(bytes) + 2) \div 3) |->
             B64Group(SubSeq(bytes, 3 * k - 2,
                             IF 3 * k <= Len(bytes) THEN 3 * k ELSE Len(bytes)))])

\* arrayBufferToBase64: every byte becomes one character of a binary
\* string (String.fromCharCode), which btoa encodes.
arrayBufferToBase64(buffer) == btoa(buffer)

\* new TextEncoder().encode: UTF-8, one byte below 0x80, two below 0x800.
TextEncode(s) ==
  Flatten([i \in 1..Len(s) |->
             IF s[i] < 128 THEN <<s[i]>>
             ELSE <<192 + (s[i] \div 64), 128 + (s[i] % 64)>>])

\* --------------------------------------------------------- JSON.stringify

\* A string value: quoted, with '"' and '\' escaped by a backslash (the
\* names used here hold no control characters).
QuoteJson(s) ==
  <<34>> \o Flatten([i \in 1..Len(s) |->
                       IF s[i] \in {34, 92} THEN <<92, s[i]>> ELSE <<s[i]>>])
         \o <<34>>

RECURSIVE NumberToString(_)
\* A non-negative integer in decimal.
NumberToString(n) ==
  IF n < 10 THEN <<48 + n>>
  ELSE NumberToString(n \div 10) \o <<48 + (n % 10)>>

\* "uri":
KeyUri == <<34, 117, 114, 105, 34, 58>>
\* "byteLength":
KeyByteLength == <<34, 98, 121, 116, 101, 76, 101, 110, 103, 116, 104, 34, 58>>
\* {"asset":{"version":"2.0"}
OpenWithAsset == <<123, 34, 97, 115, 115, 101, 116, 34, 58, 123, 34, 118, 101, 114,
                   115, 105, 111, 110, 34, 58, 34, 50, 46, 48, 34, 125>>
\* ,"buffers":[
KeyBuffers == <<44, 34, 98, 117, 102, 102, 101, 114, 115, 34, 58, 91>>
\* ,"images":[
KeyImages == <<44, 34, 105, 109, 97, 103, 101, 115, 34, 58, 91>>

\* A buffer descriptor {"uri":...,"byteLength":...}; an absent uri is no member.
StringifyBuffer(b) ==
  <<123>>
  \o (IF b.uri = None THEN <<>> ELSE KeyUri \o QuoteJson(b.uri[1]) \o <<44>>)
  \o KeyByteLength \o NumberToString(b.byteLength)
  \o <<125>>

\* An image descriptor {"uri":...}.
StringifyImage(im) ==
  <<123>>
  \o (IF im.uri = None THEN <<>> ELSE KeyUri \o QuoteJson(im.uri[1]))
  \o <<125>>

\* JSON.stringify(gltf): the members in the order of the parsed document,
\* absent members left out.
JSONstringify(gltf) ==
  OpenWithAsset
  \o (IF gltf.buffers = None THEN <<>>
      ELSE KeyBuffers
           \o Join([i \in 1..Len(gltf.buffers[1]) |->
                      StringifyBuffer(gltf.buffers[1][i])], <<44>>)
           \o <<93>>)
  \o (IF gltf.images = None THEN <<>>
      ELSE KeyImages
           \o Join([i \in 1..Len(gltf.images[1]) |->
                      StringifyImage(gltf.images[1][i])], <<44>>)
           \o <<93>>)
  \o <<125>>

\* ------------------------------------------------------------ typed arrays

\* new Uint8Array(n) / new ArrayBuffer(n): n zero bytes.
Zeros(n) == [i \in 1..n |-> 0]

\* The bytes of buf with src written at offset off (src fits).
Overwrite(buf, off, src) ==
  [i \in 1..Len(buf) |->
     IF i > off /\ i <= off + Len(src) THEN src[i - off] ELSE buf[i]]

\* Mutant: the four bytes stored big-endian (the littleEndian flag left out).
Uint32BE(value) ==
  <<(value \div 16777216) % 256, (value \div 65536) % 256,
    (value \div 256) % 256, value % 256>>

\* The four bytes DataView.setUint32(_, value, true) stores: little-endian.
Uint32LE(value) ==
  <<value % 256, (value \div 256) % 256, (value \div 65536) % 256,
    (value \div 16777216) % 256>>

\* ---------------------------------------------------------- convertToGlb

\* if (x.uri): the uri is present and is not the empty string.
Truthy(uri) == uri # None /\ uri[1] # <<>>

\* Mutant: only the files classified 'bin' are entered in the map.
fileMapGetBinOnly(fs, name) ==
  LET at == {i \in 1..Len(fs) : fs[i].type = "bin" /\ fs[i].file.name = name}
  IN  IF at = {} THEN None
      ELSE Some(fs[CHOOSE i \in at : \A j \in at : j <= i].file.bytes)

\* fileMap.get(name) of the map built from the files that are not 'gltf':
\* Map.set replaces, so the last file of a name is the one found.
fileMapGet(fs, name) ==
  LET at == {i \in 1..Len(fs) : fs[i].type # "gltf" /\ fs[i].file.name = name}
  IN  IF at = {} THEN None
      ELSE Some(fs[CHOOSE i \in at : \A j \in at : j <= i].file.bytes)

RECURSIVE BuffersLoopSkipMissing(_, _, _, _)
\* Mutant: a missing buffer is passed over, as a missing image is.
BuffersLoopSkipMissing(buffers, fs, k, acc) ==
  IF k > Len(buffers) THEN acc
  ELSE IF Truthy(buffers[k].uri) /\ fileMapGet(fs, buffers[k].uri[1]) # None
  THEN LET bufferData == fileMapGet(fs, buffers[k].uri[1])
       IN  BuffersLoopSkipMissing(buffers, fs, k + 1,
             [acc EXCEPT !.bufferDatas = Append(@, bufferData[1]),
                         !.totalBufferLength = @ + Len(bufferData[1])])
  ELSE BuffersLoopSkipMissing(buffers, fs, k + 1, acc)

RECURSIVE BuffersLoop(_, _, _, _)
\* for (const buffer of gltf.buffers): a buffer with a uri is looked up,
\* a missing one throws, a found one is pushed and counted.
BuffersLoop(buffers, fs, k, acc) ==
  IF k > Len(buffers) THEN acc
  ELSE IF Truthy(buffers[k].uri)
  THEN LET bufferData == fileMapGet(fs, buffers[k].uri[1])
       IN  IF bufferData = None
           THEN [acc EXCEPT !.missing = Some(buffers[k].uri[1])]
           ELSE BuffersLoop(buffers, fs, k + 1,
                  [acc EXCEPT !.bufferDatas = Append(@, bufferData[1]),
                              !.totalBufferLength = @ + Len(bufferData[1])])
  ELSE BuffersLoop(buffers, fs, k + 1, acc)

\* Mutant of ProcessBuffers: no buffer is fatal.
ProcessBuffersSkipMissing(gltf, fs) ==
  LET acc0 == [missing |-> None, bufferDatas |-> <<>>, totalBufferLength |-> 0]
  IN  IF gltf.buffers = None THEN acc0
      ELSE BuffersLoopSkipMissing(gltf.buffers[1], fs, 1, acc0)

\* "Process buffers": bufferDatas and totalBufferLength, or the uri thrown.
ProcessBuffers(gltf, fs) ==
  LET acc0 == [missing |-> None, bufferDatas |-> <<>>, totalBufferLength |-> 0]
  IN  IF gltf.buffers = None THEN acc0
      ELSE BuffersLoop(gltf.buffers[1], fs, 1, acc0)

\* ;base64,
Base64Tag == <<59, 98, 97, 115, 101, 54, 52, 44>>

\* Mutant: the uri of a missing image is dropped.
ProcessImageDropMissing(image, fs) ==
  IF Truthy(image.uri) /\ ~StartsWith(image.uri[1], DataPrefix)
  THEN LET imageData == fileMapGet(fs, image.uri[1])
       IN  IF imageData # None
           THEN [image EXCEPT !.uri =
                   Some(DataPrefix \o getMimeType(image.uri[1])
                        \o <<59, 98, 97, 115, 101, 54, 52, 44>>
                        \o arrayBufferToBase64(imageData[1]))]
           ELSE [image EXCEPT !.uri = None]
  ELSE image

\* Mutant: every image uri is looked up, a data URI too.
ProcessImageEveryUri(image, fs) ==
  IF Truthy(image.uri)
  THEN LET imageData == fileMapGet(fs, image.uri[1])
       IN  IF imageData # None
           THEN [image EXCEPT !.uri =
                   Some(DataPrefix \o getMimeType(image.uri[1]) \o Base64Tag
                        \o arrayBufferToBase64(imageData[1]))]
           ELSE image
  ELSE image

\* One turn of the images loop: an external uri that resolves becomes a data
\* URI, any other image is left as it is (a missing one is only warned of).
ProcessImage(image, fs) ==
  IF Truthy(image.uri) /\ ~StartsWith(image.uri[1], DataPrefix)
  THEN LET imageData == fileMapGet(fs, image.uri[1])
       IN  IF imageData # None
           THEN [image EXCEPT !.uri =
                   Some(DataPrefix \o getMimeType(image.uri[1]) \o Base64Tag
                        \o arrayBufferToBase64(imageData[1]))]
           ELSE image
  ELSE image

\* Mutant: the images are inlined only after the document was serialized.
ProcessImagesAfterStringify(gltf, fs) == gltf.images

\* "Process images": gltf.images after the loop.
ProcessImages(gltf, fs) ==
  IF gltf.images = None THEN None
  ELSE Some([i \in 1..Len(gltf.images[1]) |-> ProcessImage(gltf.images[1][i], fs)])

RECURSIVE CombineLoop(_, _, _, _)
\* combinedBuffer.set(new Uint8Array(bufferData), offset); offset += byteLength.
\* TypedArray.set throws a RangeError when the source does not fit.
CombineLoop(bufferDatas, k, combined, offset) ==
  IF k > Len(bufferDatas) THEN Some(combined)
  ELSE IF offset + Len(bufferDatas[k]) > Len(combined) THEN None
  ELSE CombineLoop(bufferDatas, k + 1,
                   Overwrite(combined, offset, bufferDatas[k]),
                   offset + Len(bufferDatas[k]))

RECURSIVE CombineLoopAtZero(_, _, _)
\* Mutant: the offset is never advanced, every buffer is set at 0.
CombineLoopAtZero(bufferDatas, k, combined) ==
  IF k > Len(bufferDatas) THEN Some(combined)
  ELSE CombineLoopAtZero(bufferDatas, k + 1, Overwrite(combined, 0, bufferDatas[k]))

CombineBuffersAtZero(bufferDatas, totalBufferLength) ==
  CombineLoopAtZero(bufferDatas, 1, Zeros(totalBufferLength))

\* "Combine all buffer data": combinedBuffer, or None for a RangeError.
CombineBuffers(bufferDatas, totalBufferLength) ==
  CombineLoop(bufferDatas, 1, Zeros(totalBufferLength), 0)

\* Mutant: the list is replaced whenever it is present, an empty one too.
CollapseBuffersEmptyToo(buffers, totalBufferLength) ==
  IF buffers # None
  THEN Some(<<[uri |-> None, byteLength |-> totalBufferLength]>>)
  ELSE buffers

\* Mutant: the first descriptor is kept and only its byteLength updated.
CollapseBuffersKeepUri(buffers, totalBufferLength) ==
  IF buffers # None /\ Len(buffers[1]) > 0
  THEN Some(<<[buffers[1][1] EXCEPT !.byteLength = totalBufferLength]>>)
  ELSE buffers

\* "Update GLTF to reference single buffer".
CollapseBuffers(buffers, totalBufferLength) ==
  IF buffers # None /\ Len(buffers[1]) > 0
  THEN Some(<<[uri |-> None, byteLength |-> totalBufferLength]>>)
  ELSE buffers

\* Mutant: the outer modulo is left out, an aligned length gets 4.
PaddingUpToFour(len) == 4 - (len % 4)

\* Mutant: the remainder itself is taken as the padding.
PaddingRemainder(len) == len % 4

\* (4 - (len % 4)) % 4
Padding(len) == (4 - (len % 4)) % 4

\* magic "glTF"
Magic == 1179937895
\* version
Version == 2
\* chunk type "JSON"
ChunkTypeJSON == 1313821514
\* chunk type "BIN\0"
ChunkTypeBIN == 5130562
\* padding of the JSON chunk: a space
JsonPadByte == 32
\* padding of the binary chunk: zero
BinPadByte == 0

headerLength == 12

jsonChunkHeaderLength == 8

binChunkHeaderLength(totalBufferLength) == IF totalBufferLength > 0 THEN 8 ELSE 0

\* Mutant: the binary chunk header is counted whether or not it is written.
TotalLengthHeaderAlways(paddedJsonLength, paddedBinLength, totalBufferLength) ==
  headerLength + jsonChunkHeaderLength + paddedJsonLength + 8
  + (IF totalBufferLength > 0 THEN paddedBinLength ELSE 0)

TotalLength(paddedJsonLength, paddedBinLength, totalBufferLength) ==
  headerLength + jsonChunkHeaderLength + paddedJsonLength
  + (IF totalBufferLength > 0
     THEN binChunkHeaderLength(totalBufferLength) + paddedBinLength
     ELSE 0)

\* The writer: glbBuffer, writeOffset, and whether a write threw.
\* dataView.setUint32(writeOffset, value, true); writeOffset += 4
\* (a RangeError when the four bytes do not fit).
PutUint32(w, value) ==
  IF w.threw \/ w.off + 4 > Len(w.buf) THEN [w EXCEPT !.threw = TRUE]
  ELSE [w EXCEPT !.buf = Overwrite(w.buf, w.off, Uint32LE(value)),
                 !.off = w.off + 4]

\* uint8View.set(src, writeOffset); writeOffset += src.byteLength
PutBytes(w, src) ==
  IF w.threw \/ w.off + Len(src) > Len(w.buf) THEN [w EXCEPT !.threw = TRUE]
  ELSE [w EXCEPT !.buf = Overwrite(w.buf, w.off, src),
                 !.off = w.off + Len(src)]

\* for (i < n) uint8View[writeOffset++] = byte (a store past the end is
\* dropped, the offset still advances).
PutPadding(w, n, byte) ==
  IF w.threw THEN w
  ELSE [w EXCEPT !.buf = [i \in 1..Len(w.buf) |->
                            IF i > w.off /\ i <= w.off + n THEN byte ELSE w.buf[i]],
                 !.off = w.off + n]

\* "GLB Header"
WriteHeader(w, totalLength) ==
  PutUint32(PutUint32(PutUint32(w, Magic), Version), totalLength)

\* "JSON Chunk Header" and "JSON Chunk Data"
WriteJsonChunk(w, gltfJsonBuffer, jsonPadding, paddedJsonLength) ==
  PutPadding(
    PutBytes(PutUint32(PutUint32(w, paddedJsonLength), ChunkTypeJSON),
             gltfJsonBuffer),
    jsonPadding, JsonPadByte)

\* "Binary Chunk (if exists)"
WriteBinChunk(w, combinedBuffer, binPadding, paddedBinLength, totalBufferLength) ==
  IF totalBufferLength > 0
  THEN PutPadding(
         PutBytes(PutUint32(PutUint32(w, paddedBinLength), ChunkTypeBIN),
                  combinedBuffer),
         binPadding, BinPadByte)
  ELSE w

\* The locals of a call of convertToGlb before its try block has run.
NoLocals ==
  [outcome |-> "none", error |-> None, gltf |-> None,
   bufferDatas |-> <<>>, totalBufferLength |-> 0, combinedBuffer |-> <<>>,
   gltfJsonBuffer |-> <<>>, jsonPadding |-> 0, paddedJsonLength |-> 0,
   binPadding |-> 0, paddedBinLength |-> 0, totalLength |-> 0,
   writeOffset |-> 0, glbBuffer |-> None]

\* throw new Error(...) / a thrown SyntaxError or RangeError: the locals as
\* the catch block finds them.
Thrown(locals, text, arg) ==
  [locals EXCEPT !.outcome = "error", !.error = Some([text |-> text, arg |-> arg])]

\* files.find((f) => f.type === 'gltf'): the first one, None when there is none.
FindGltf(fs) ==
  LET at == {i \in 1..Len(fs) : fs[i].type = "gltf"}
  IN  IF at = {} THEN None
      ELSE Some(fs[CHOOSE i \in at : \A j \in at : i <= j])

\* The container writer: the locals from the JSON text to the last write.
WriteGlb(locals, gltf, combinedBuffer) ==
  LET totalBufferLength == locals.totalBufferLength
      gltfJsonBuffer    == TextEncode(JSONstringify(gltf))
      jsonPadding       == Padding(Len(gltfJsonBuffer))
      paddedJsonLength  == Len(gltfJsonBuffer) + jsonPadding
      binPadding        == Padding(Len(combinedBuffer))
      paddedBinLength   == Len(combinedBuffer) + binPadding
      totalLength       == TotalLength(paddedJsonLength, paddedBinLength,
                                       totalBufferLength)
      w0 == [buf |-> Zeros(totalLength), off |-> 0, threw |-> FALSE]
      w  == WriteBinChunk(
              WriteJsonChunk(WriteHeader(w0, totalLength),
                             gltfJsonBuffer, jsonPadding, paddedJsonLength),
              combinedBuffer, binPadding, paddedBinLength, totalBufferLength)
      written == [locals EXCEPT
                    !.gltf = Some(gltf), !.combinedBuffer = combinedBuffer,
                    !.gltfJsonBuffer = gltfJsonBuffer,
                    !.jsonPadding = jsonPadding,
                    !.paddedJsonLength = paddedJsonLength,
                    !.binPadding = binPadding,
                    !.paddedBinLength = paddedBinLength,
                    !.totalLength = totalLength,
                    !.writeOffset = w.off]
  IN  IF w.threw THEN Thrown(written, "RangeError", <<>>)
      ELSE [written EXCEPT !.outcome = "success", !.glbBuffer = Some(w.buf)]

\* Mutant: text that is not JSON is taken as an empty document.
JSONparseLenient(file) ==
  IF file.doc = None THEN Some([buffers |-> None, images |-> None]) ELSE file.doc

\* JSON.parse(await gltfFile.file.text()): the document, None when it throws.
JSONparse(file) == file.doc

\* The try block of convertToGlb on the files its closure holds: the
\* locals at its end, or at the throw.  The awaited reads give each file's
\* content; JSON.parse gives the document or throws (as does gltfFile.file
\* were there no source document).
TryBlock(fs) ==
  LET parsed == JSONparse(FindGltf(fs)[1].file)
  IN  IF FindGltf(fs) = None THEN Thrown(NoLocals, "TypeError", <<>>)
      ELSE IF parsed = None THEN Thrown(NoLocals, "SyntaxError", <<>>)
      ELSE
        LET pb == ProcessBuffers(parsed[1], fs)
            resolved == [NoLocals EXCEPT
                           !.gltf = parsed,
                           !.bufferDatas = pb.bufferDatas,
                           !.totalBufferLength = pb.totalBufferLength]
        IN  IF pb.missing # None
            THEN Thrown(resolved, "Missing buffer file: ", pb.missing[1])
            ELSE
              LET images == ProcessImages(parsed[1], fs)
                  combined == CombineBuffers(pb.bufferDatas, pb.totalBufferLength)
                  gltf == [buffers |-> CollapseBuffers(parsed[1].buffers,
                                                       pb.totalBufferLength),
                           images |-> images]
              IN  IF combined = None THEN Thrown(resolved, "RangeError", <<>>)
                  ELSE WriteGlb(resolved, gltf, combined[1])

\* Mutant: the parts of the blob are kept from one conversion to the next.
NewBlobAppending(glbBuffer) ==
  [bytes |-> (IF glbBlob = None THEN <<>> ELSE glbBlob[1].bytes) \o glbBuffer,
   type |-> "model/gltf-binary"]

\* new Blob([glbBuffer], { type: 'model/gltf-binary' })
NewBlob(glbBuffer) == [bytes |-> glbBuffer, type |-> "model/gltf-binary"]

\* .gltf
DotGltf == <<46, 103, 108, 116, 102>>

\* name.replace(/\.gltf$/i, '')
BaseName(name) ==
  IF Len(name) >= 5 /\ toLowerCase(SubSeq(name, Len(name) - 4, Len(name))) = DotGltf
  THEN SubSeq(name, 1, Len(name) - 5)
  ELSE name

gltfCount(fs) == Cardinality({i \in 1..Len(fs) : fs[i].type = "gltf"})

\* ------------------------------------------------------------------ actions

\* Mutant: no check for a source document before the conversion starts.
convertToGlbStartUnchecked ==
  /\ converting' = TRUE
  /\ conv' = [pc |-> "reading", files |-> files, locals |-> NoLocals]
  /\ inFlight' = inFlight + 1
  /\ UNCHANGED <<files, glbBlob, glbName, toast>>
  /\ UNCHANGED storeVars

\* convertToGlb up to its first await: the check for a source document,
\* then setConverting(true) and the start of the read.
convertToGlbStart ==
  /\ IF FindGltf(files) = None
     THEN /\ toast' = Some([level |-> "error", text |-> "Please add a .gltf file",
                            arg |-> <<>>])
          /\ UNCHANGED <<files, converting, glbBlob, glbName, conv, inFlight>>
     ELSE /\ converting' = TRUE
          /\ conv' = [pc |-> "reading", files |-> files, locals |-> NoLocals]
          /\ inFlight' = inFlight + 1
          /\ UNCHANGED <<files, glbBlob, glbName, toast>>
  /\ UNCHANGED storeVars

\* A click on Convert (enabled unless gltfCount === 0 || converting).
ConvertClick ==
  /\ ~converting
  /\ gltfCount(files) > 0
  /\ convertToGlbStart

\* convertToGlb called on whatever the list holds, one call at a time: the
\* handler makes its own check for a source document.
ConvertCall ==
  /\ conv.pc # "reading"
  /\ convertToGlbStart

\* Mutant: converting is reset at the end of the try block, not in a finally.
ConvertFinishWithoutFinally ==
  /\ conv.pc = "reading"
  /\ LET locals == TryBlock(conv.files)
     IN  /\ conv' = [conv EXCEPT !.pc = "done", !.locals = locals]
         /\ IF locals.outcome = "success"
            THEN /\ glbBlob' = Some(NewBlob(locals.glbBuffer[1]))
                 /\ glbName' = BaseName(FindGltf(conv.files)[1].file.name)
                 /\ toast' = Some([level |-> "success",
                                   text |-> "Conversion successful!", arg |-> <<>>])
                 /\ converting' = FALSE
            ELSE /\ toast' = Some([level |-> "error",
                                   text |-> "Conversion failed: " \o locals.error[1].text,
                                   arg |-> locals.error[1].arg])
                 /\ UNCHANGED <<glbBlob, glbName, converting>>
  /\ inFlight' = inFlight - 1
  /\ UNCHANGED files
  /\ UNCHANGED storeVars

\* convertToGlb from its first await to its end: the reads settle, the try
\* block runs on the captured files, then catch and finally.  Nothing the
\* block reads can change while it is suspended, so its awaits are one step.
ConvertFinish ==
  /\ conv.pc = "reading"
  /\ LET locals == TryBlock(conv.files)
     IN  /\ conv' = [conv EXCEPT !.pc = "done", !.locals = locals]
         /\ IF locals.outcome = "success"
            THEN /\ glbBlob' = Some(NewBlob(locals.glbBuffer[1]))
                 /\ glbName' = BaseName(FindGltf(conv.files)[1].file.name)
                 /\ toast' = Some([level |-> "success",
                                   text |-> "Conversion successful!", arg |-> <<>>])
            ELSE /\ toast' = Some([level |-> "error",
                                   text |-> "Conversion failed: " \o locals.error[1].text,
                                   arg |-> locals.error[1].arg])
                 /\ UNCHANGED <<glbBlob, glbName>>
  /\ converting' = FALSE
  /\ inFlight' = inFlight - 1
  /\ UNCHANGED files
  /\ UNCHANGED storeVars

\* handleFilesSelect: the selected files are classified and appended, the
\* result is dropped.
handleFilesSelect(selectedFiles) ==
  /\ files' = files \o [i \in 1..Len(selectedFiles) |->
                          [file |-> selectedFiles[i],
                           type |-> getFileType(selectedFiles[i].name)]]
  /\ glbBlob' = None
  /\ UNCHANGED <<converting, glbName, toast, conv, inFlight>>
  /\ UNCHANGED storeVars

\* removeFile(index), index counted from 0.
removeFile(index) ==
  /\ files' = [i \in 1..(Len(files) - 1) |->
                 IF i <= index THEN files[i] ELSE files[i + 1]]
  /\ glbBlob' = None
  /\ UNCHANGED <<converting, glbName, toast, conv, inFlight>>
  /\ UNCHANGED storeVars

\* resetConverter ("Clear all", shown while the list is not empty).
resetConverter ==
  /\ files' = <<>>
  /\ glbBlob' = None
  /\ glbName' = <<>>
  /\ UNCHANGED <<converting, toast, conv, inFlight>>
  /\ UNCHANGED storeVars

\* ------------------------------------------------------------- the inputs

\* scene.gltf
NameScene == <<115, 99, 101, 110, 101, 46, 103, 108, 116, 102>>
\* Room.GLTF
NameRoom == <<82, 111, 111, 109, 46, 71, 76, 84, 70>>
\* a.bin
NameA == <<97, 46, 98, 105, 110>>
\* b.bin
NameB == <<98, 46, 98, 105, 110>>
\* e.bin
NameE == <<101, 46, 98, 105, 110>>
\* t.png
NamePng == <<116, 46, 112, 110, 103>>
\* e-acute.JPG (a name outside ASCII, in upper case)
NameJpg == <<233, 46, 74, 80, 71>>
\* data:,
DataUriBuffer == <<100, 97, 116, 97, 58, 44>>
\* data:;base64,AA==  (a data URI that a file can have as its name)
DataUriImage == <<100, 97, 116, 97, 58, 59, 98, 97, 115, 101, 54, 52, 44, 65, 65,
                  61, 61>>

\* A File that is not a glTF document: its name and its bytes.
Payload(name, bytes) == [name |-> name, bytes |-> bytes, doc |-> None]

\* A .gltf File: its text parses to doc (None: the text is not JSON).
Source(name, doc) == [name |-> name, bytes |-> <<>>, doc |-> doc]

FileA == Payload(NameA, <<1, 2, 3>>)
FileB == Payload(NameB, <<16, 32, 48, 64, 80, 96, 112, 128, 144, 160>>)
FileE == Payload(NameE, <<>>)
FilePng == Payload(NamePng, <<137, 80>>)
FileJpg == Payload(NameJpg, <<255, 216, 255>>)
\* A file whose name is the data URI an image carries.
FileData == Payload(DataUriImage, <<7>>)

\* The payload sets a pack is given: every file, some of them, none.
PayloadChoices ==
  { <<FileA, FileB, FileE, FilePng, FileJpg, FileData>>,
    <<FileB, FileE, FilePng>>,
    <<>> }

\* The byteLength a source document declares for each of its buffers.
DeclaredByteLength == 7

BufferUris ==
  {None, Some(<<>>), Some(NameA), Some(NameB), Some(NameE), Some(DataUriBuffer)}

ImageUris ==
  {None, Some(<<>>), Some(NamePng), Some(NameJpg), Some(DataUriImage)}

SeqsUpTo(S, n) == UNION {[1..k -> S] : k \in 0..n}

BufferDescs == {[uri |-> u, byteLength |-> DeclaredByteLength] : u \in BufferUris}

ImageDescs == {[uri |-> u] : u \in ImageUris}

\* The buffers members with exactly n descriptors (absent counts as none).
BufferListsOf(n) ==
  (IF n = 0 THEN {None} ELSE {}) \cup {Some(l) : l \in [1..n -> BufferDescs]}

\* The images members with at most n descriptors.
ImageListsUpTo(n) == {None} \cup {Some(l) : l \in SeqsUpTo(ImageDescs, n)}

\* The parsed documents: buffers and images absent, empty, or up to the bound.
Docs ==
  UNION {[buffers : BufferListsOf(n), images : ImageListsUpTo(MaxRefs - n)] :
           n \in 0..MaxRefs}

\* A list of Files as handleFilesSelect enters it in the dialog's list.
Classified(fileList) ==
  [i \in 1..Len(fileList) |->
     [file |-> fileList[i], type |-> getFileType(fileList[i].name)]]

\* One .gltf file, well-formed or not, and a payload set.
DocInputs ==
  {Classified(<<g>> \o p) :
     g \in {Source(NameScene, Some(d)) : d \in Docs} \cup {Source(NameScene, None)},
     p \in PayloadChoices}

\* A document with one image and the texture that image names: names of
\* every kind of extension (m.webp, p.jpeg, q.jpg, T.PNG, x.dat, and png,
\* a name without a dot), contents of every length modulo three.
TextureInputs ==
  {Classified(<<Source(NameScene,
                       Some([buffers |-> None,
                             images |-> Some(<<[uri |-> Some(n)]>>)])),
                Payload(n, b)>>) :
     n \in {<<109, 46, 119, 101, 98, 112>>, <<112, 46, 106, 112, 101, 103>>,
            <<113, 46, 106, 112, 103>>, <<84, 46, 80, 78, 71>>,
            <<120, 46, 100, 97, 116>>, <<112, 110, 103>>},
     b \in {<<>>, <<251>>, <<1, 2>>, <<77, 97, 110>>, <<255, 254, 253, 252>>}}

\* Documents whose buffer names a file with a texture's extension, whose image
\* names a .bin file, or whose buffer names a second .gltf file.
CrossInputs ==
  {Classified(<<Source(NameScene, Some([buffers |-> Some(<<[uri |-> Some(b),
                                                        byteLength |-> DeclaredByteLength]>>),
                                        images |-> Some(<<[uri |-> Some(i)]>>)])),
                Source(NameRoom, None), FileA, FilePng, FileJpg>>) :
     b \in {NamePng, NameJpg, NameRoom}, i \in {NameA, NameRoom}}

\* The file lists a pack is run on.
PackInputs == DocInputs \cup TextureInputs \cup CrossInputs

\* The files the user of the dialog has at hand.
DialogFiles ==
  { Source(NameRoom, Some([buffers |-> Some(<<[uri |-> Some(NameA),
                                              byteLength |-> DeclaredByteLength]>>),
                           images |-> Some(<<[uri |-> Some(NamePng)]>>)])),
    Source(NameScene, None),
    FileA, FilePng }

\* Most files the dialog's list holds.
MaxFiles == 2
\* Most files one selection adds.
MaxSelect == 1

\* ---------------------------------------------------------- the room store

MAX_HISTORY == 50

defaultWallColors ==
  [north |-> "#e8e4df", south |-> "#e8e4df", east |-> "#e8e4df", west |-> "#e8e4df"]

defaultWallTextures ==
  [north |-> "none", south |-> "none", east |-> "none", west |-> "none"]

defaultFloorColor == "#8b7355"

defaultCeilingColor == "#ffffff"

\* The store as create() builds it.  historyIndex counts from -1 as in the
\* source; history[i] of the source is history[i + 1] here.
InitialStore ==
  [dimensions |-> None, openings |-> <<>>, furniture |-> <<>>,
   selectedFurnitureId |-> None,
   wallColors |-> defaultWallColors, wallTextures |-> defaultWallTextures,
   floorColor |-> defaultFloorColor, ceilingColor |-> defaultCeilingColor,
   showGrid |-> TRUE, cameraLocked |-> FALSE,
   history |-> <<>>, historyIndex |-> -1]

\* { ...o, ...updates }
Merge(o, updates) ==
  [k \in DOMAIN o \cup DOMAIN updates |->
     IF k \in DOMAIN updates THEN updates[k] ELSE o[k]]

\* JSON.parse(JSON.stringify(list)) of a list of plain objects whose members
\* are finite numbers, strings and lists of them: a member-by-member copy.
JsonClone(list) ==
  [i \in 1..Len(list) |-> [k \in DOMAIN list[i] |-> list[i][k]]]

createSnapshot(state) ==
  [dimensions |-> state.dimensions,
   openings |-> JsonClone(state.openings),
   furniture |-> JsonClone(state.furniture),
   wallColors |-> state.wallColors,
   wallTextures |-> state.wallTextures,
   floorColor |-> state.floorColor,
   ceilingColor |-> state.ceilingColor]

\* saveToHistory dropping the snapshot just pushed when the list is over its
\* limit, instead of the oldest one.
saveToHistoryDroppingNewest(state) ==
  LET snapshot == createSnapshot(state)
      sliced == SubSeq(state.history, 1, state.historyIndex + 1)
      pushed == Append(sliced, snapshot)
      newHistory == IF Len(pushed) > MAX_HISTORY
                    THEN SubSeq(pushed, 1, MAX_HISTORY) ELSE pushed
  IN  [state EXCEPT !.history = newHistory, !.historyIndex = Len(newHistory) - 1]

\* saveToHistory without the limit on the list.
saveToHistoryUnbounded(state) ==
  LET snapshot == createSnapshot(state)
      sliced == SubSeq(state.history, 1, state.historyIndex + 1)
      pushed == Append(sliced, snapshot)
  IN  [state EXCEPT !.history = pushed, !.historyIndex = Len(pushed) - 1]

\* saveToHistory: the store after it.  slice(0, end) stops at the end of the
\* list when end lies beyond it.
saveToHistory(state) ==
  LET snapshot == createSnapshot(state)
      end == state.historyIndex + 1
      sliced == SubSeq(state.history, 1,
                       IF end < Len(state.history) THEN end ELSE Len(state.history))
      pushed == Append(sliced, snapshot)
      newHistory == IF Len(pushed) > MAX_HISTORY THEN Tail(pushed) ELSE pushed
  IN  [state EXCEPT !.history = newHistory, !.historyIndex = Len(newHistory) - 1]

\* set({ dimensions, ..., ceilingColor }) from a snapshot or a design.
WithDesign(state, d) ==
  [state EXCEPT !.dimensions = d.dimensions, !.openings = d.openings,
                !.furniture = d.furniture, !.wallColors = d.wallColors,
                !.wallTextures = d.wallTextures, !.floorColor = d.floorColor,
                !.ceilingColor = d.ceilingColor]

setDimensions(state, dimensions) ==
  [saveToHistory(state) EXCEPT !.dimensions = Some(dimensions)]

addOpening(state, opening) ==
  [saveToHistory(state) EXCEPT !.openings = Append(@, opening)]

updateOpening(state, id, updates) ==
  [saveToHistory(state) EXCEPT
     !.openings = [i \in 1..Len(@) |->
                     IF @[i].id = id THEN Merge(@[i], updates) ELSE @[i]]]

removeOpening(state, id) ==
  [saveToHistory(state) EXCEPT !.openings = SelectSeq(@, LAMBDA o : o.id # id)]

\* The ids a list of items holds.
IdsIn(items) == {items[i].id : i \in 1..Len(items)}

\* crypto.randomUUID(): an id no item of the store or of its history has.
\* Which one makes no difference to the store; the least number above them.
randomUUID(state) ==
  LET held == IdsIn(state.furniture)
                \cup UNION {IdsIn(state.history[i].furniture) :
                              i \in 1..Len(state.history)}
  IN  IF held = {} THEN 1
      ELSE 1 + CHOOSE m \in held : \A n \in held : n <= m

addFurniture(state, item) ==
  LET id == randomUUID(state)
  IN  [saveToHistory(state) EXCEPT
         !.furniture = Append(@, Merge(item, [id |-> id]))]

\* updateFurniture saving a snapshot first, as the other item operations do.
updateFurnitureSaving(state, id, updates) ==
  [saveToHistory(state) EXCEPT
     !.furniture = [i \in 1..Len(@) |->
                      IF @[i].id = id THEN Merge(@[i], updates) ELSE @[i]]]

updateFurniture(state, id, updates) ==
  [state EXCEPT
     !.furniture = [i \in 1..Len(@) |->
                      IF @[i].id = id THEN Merge(@[i], updates) ELSE @[i]]]

removeFurniture(state, id) ==
  [saveToHistory(state) EXCEPT
     !.furniture = SelectSeq(@, LAMBDA item : item.id # id),
     !.selectedFurnitureId = IF @ = Some(id) THEN None ELSE @]

selectFurniture(state, id) == [state EXCEPT !.selectedFurnitureId = id]

setWallColor(state, wall, color) ==
  [saveToHistory(state) EXCEPT !.wallColors = [@ EXCEPT ![wall] = color]]

setWallTexture(state, wall, texture) ==
  [saveToHistory(state) EXCEPT !.wallTextures = [@ EXCEPT ![wall] = texture]]

setFloorColor(state, floorColor) ==
  [saveToHistory(state) EXCEPT !.floorColor = floorColor]

setCeilingColor(state, ceilingColor) ==
  [saveToHistory(state) EXCEPT !.ceilingColor = ceilingColor]

toggleGrid(state) == [state EXCEPT !.showGrid = ~@]

toggleCameraLock(state) == [state EXCEPT !.cameraLocked = ~@]

\* resetRoom clearing the dimensions with the rest.
resetRoomWithDimensions(state) ==
  [saveToHistory(state) EXCEPT
     !.dimensions = None,
     !.openings = <<>>, !.furniture = <<>>, !.selectedFurnitureId = None,
     !.wallColors = defaultWallColors, !.wallTextures = defaultWallTextures,
     !.floorColor = defaultFloorColor, !.ceilingColor = defaultCeilingColor]

\* "Reset keeps dimensions but clears everything else"
resetRoom(state) ==
  [saveToHistory(state) EXCEPT
     !.openings = <<>>, !.furniture = <<>>, !.selectedFurnitureId = None,
     !.wallColors = defaultWallColors, !.wallTextures = defaultWallTextures,
     !.floorColor = defaultFloorColor, !.ceilingColor = defaultCeilingColor]

loadDesign(state, data) ==
  [WithDesign(saveToHistory(state), data) EXCEPT !.selectedFurnitureId = None]

\* undo leaving the selection as it is.
undoKeepingSelection(state) ==
  IF state.historyIndex < 0 THEN state
  ELSE [WithDesign(state, state.history[state.historyIndex + 1]) EXCEPT
          !.historyIndex = state.historyIndex - 1]

undo(state) ==
  IF state.historyIndex < 0 THEN state
  ELSE LET snapshot == state.history[state.historyIndex + 1]
       IN  [WithDesign(state, snapshot) EXCEPT
              !.historyIndex = state.historyIndex - 1,
              !.selectedFurnitureId = None]

redo(state) ==
  IF state.historyIndex >= Len(state.history) - 1 THEN state
  ELSE LET nextIndex == state.historyIndex + 1
       IN  IF nextIndex + 1 < Len(state.history)
           THEN LET nextSnapshot == state.history[nextIndex + 2]
                IN  [WithDesign(state, nextSnapshot) EXCEPT
                       !.historyIndex = nextIndex + 1,
                       !.selectedFurnitureId = None]
           ELSE state

canUndo(state) == state.historyIndex >= 0

\* canRedo true whenever the index is below the end of the list.
canRedoBelowEnd(state) == state.historyIndex < Len(state.history) - 1

canRedo(state) == state.historyIndex < Len(state.history) - 2

\* ------------------------------------------------- the inputs of the store

\* Most snapshots pushed in one run.
MaxSaves == 2

\* Most steps the history index is taken below the newest snapshot.
MaxRewind == 3

\* Lengths are in decimetres, positions along a wall in tenths.
NewOpening(id) ==
  [id |-> id, type |-> "door", wall |-> "north", position |-> 5,
   width |-> 9, height |-> 20, elevation |-> 0]

\* What handleAddFurniture passes for a catalogue item that stands on the floor.
CatalogItem ==
  [type |-> "chair", name |-> "Chair", position |-> <<0, 0, 0>>,
   rotation |-> <<0, 0, 0>>, scale |-> <<1, 1, 1>>, color |-> "#8b4513"]

\* A saved design as handleLoad receives it.
SavedDesign ==
  [dimensions |-> Some([width |-> 12, length |-> 10, height |-> 9, unit |-> "feet"]),
   openings |-> <<[id |-> 7, type |-> "window", wall |-> "south", position |-> 5,
                   width |-> 12, height |-> 12, elevation |-> 9]>>,
   furniture |-> <<[id |-> 101, type |-> "bed", name |-> "Bed",
                    position |-> <<1, 0, 1>>, rotation |-> <<0, 0, 0>>,
                    scale |-> <<1, 1, 1>>, color |-> "#6b8e9f"],
                   [id |-> 102, type |-> "sofa", name |-> "Sofa",
                    position |-> <<2, 0, 0>>, rotation |-> <<0, 0, 0>>,
                    scale |-> <<1, 1, 1>>, color |-> "#8b7355"]>>,
   wallColors |-> [defaultWallColors EXCEPT !.west = "#334455"],
   wallTextures |-> [defaultWallTextures EXCEPT !.south = "wood"],
   floorColor |-> "#444444",
   ceilingColor |-> "#fafafa"]

\* ------------------------------------------------ the actions of the store

\* A store operation that calls saveToHistory first.
Saving(next) ==
  /\ saveCount < MaxSaves
  /\ store' = next
  /\ saveCount' = saveCount + 1
  /\ UNCHANGED dialogVars

\* A store operation that does not.
Plain(next) ==
  /\ store' = next
  /\ UNCHANGED saveCount
  /\ UNCHANGED dialogVars

SetDimensions ==
  Saving(setDimensions(store, [width |-> 40, length |-> 50, height |-> 27,
                               unit |-> "meters"]))

\* An opening is added under an id no opening of the room has.
AddOpening ==
  \E id \in {1, 2} \ IdsIn(store.openings) :
    Saving(addOpening(store, NewOpening(id)))

\* A drag of an opening: updateOpening(opening.id, { wall, position }).
UpdateOpening ==
  \E id \in IdsIn(store.openings) :
    Saving(updateOpening(store, id, [wall |-> "east", position |-> 3]))

RemoveOpening ==
  \E id \in IdsIn(store.openings) : Saving(removeOpening(store, id))

AddFurniture == Saving(addFurniture(store, CatalogItem))

\* handleColorChange: updateFurniture(selectedItem.id, { color }).
UpdateFurniture ==
  \E id \in IdsIn(store.furniture) :
    Plain(updateFurniture(store, id, [color |-> "#336699"]))

RemoveFurniture ==
  \E id \in IdsIn(store.furniture) : Saving(removeFurniture(store, id))

\* A click on an item of the scene, or a click that misses them all.
SelectFurniture ==
  \E id \in {None} \cup {Some(i) : i \in IdsIn(store.furniture)} :
    Plain(selectFurniture(store, id))

SetWallColor == Saving(setWallColor(store, "north", "#aabbcc"))

SetWallTexture == Saving(setWallTexture(store, "north", "brick"))

SetFloorColor == Saving(setFloorColor(store, "#222222"))

SetCeilingColor == Saving(setCeilingColor(store, "#dddddd"))

ToggleGrid == Plain(toggleGrid(store))

ToggleCameraLock == Plain(toggleCameraLock(store))

ResetRoom == Saving(resetRoom(store))

LoadDesign == Saving(loadDesign(store, SavedDesign))

Undo ==
  /\ Len(store.history) - 1 - store.historyIndex < MaxRewind
  /\ Plain(undo(store))

Redo == Plain(redo(store))

\* ------------------------------------------------------- the specifications

Idle == [pc |-> "idle", files |-> <<>>, locals |-> NoLocals]

\* The dialog and the store as constructed.
Init ==
  /\ files = <<>>
  /\ converting = FALSE
  /\ glbBlob = None
  /\ glbName = <<>>
  /\ toast = None
  /\ conv = Idle
  /\ inFlight = 0
  /\ store = InitialStore
  /\ saveCount = 0

SelectFiles ==
  \E n \in 1..MaxSelect : \E sel \in [1..n -> DialogFiles] :
    /\ Len(files) + n <= MaxFiles
    /\ handleFilesSelect(sel)

RemoveFile == \E index \in 0..(Len(files) - 1) : removeFile(index)

ClearAll == Len(files) > 0 /\ resetConverter

Next == SelectFiles \/ RemoveFile \/ ClearAll \/ ConvertClick \/ ConvertFinish

\* The dialog under every interleaving of its handlers.
Spec == Init /\ [][Next]_vars

\* The dialog holding one of the pack inputs, nothing converted yet.
InitPack ==
  /\ files \in PackInputs
  /\ converting = FALSE
  /\ glbBlob = None
  /\ glbName = <<>>
  /\ toast = None
  /\ conv = Idle
  /\ inFlight = 0
  /\ store = InitialStore
  /\ saveCount = 0

NextPack == ConvertClick \/ ConvertFinish

\* Conversions of every pack input.
SpecPack == InitPack /\ [][NextPack]_vars

NextCall == SelectFiles \/ RemoveFile \/ ClearAll \/ ConvertCall \/ ConvertFinish

\* The dialog with convertToGlb called whether or not Convert is enabled.
SpecCall == Init /\ [][NextCall]_vars

\* The floor colour after n calls of setFloorColor whose colours take turns.
RepaintedFloor(n) ==
  IF n = 0 THEN defaultFloorColor
  ELSE IF n % 2 = 1 THEN "#222222" ELSE "#444444"

\* A long session, one snapshot short of a full history: the store after
\* MAX_HISTORY - 1 calls of setFloorColor, each snapshot the design before
\* its call.
NearlyFullStore ==
  [InitialStore EXCEPT
     !.floorColor = RepaintedFloor(MAX_HISTORY - 1),
     !.history = [i \in 1..(MAX_HISTORY - 1) |->
                    createSnapshot([InitialStore EXCEPT
                                      !.floorColor = RepaintedFloor(i - 1)])],
     !.historyIndex = MAX_HISTORY - 2]

\* The store as constructed, or late in a long session with two snapshots
\* of the run left: the one that fills the history and the one that overflows
\* it.
InitStore ==
  /\ files = <<>>
  /\ converting = FALSE
  /\ glbBlob = None
  /\ glbName = <<>>
  /\ toast = None
  /\ conv = Idle
  /\ inFlight = 0
  /\ \/ store = InitialStore /\ saveCount = 0
     \/ store = NearlyFullStore /\ saveCount = MaxSaves - 2

NextStore ==
  \/ SetDimensions \/ AddOpening \/ UpdateOpening \/ RemoveOpening
  \/ AddFurniture \/ UpdateFurniture \/ RemoveFurniture \/ SelectFurniture
  \/ SetWallColor \/ SetWallTexture \/ SetFloorColor \/ SetCeilingColor
  \/ ToggleGrid \/ ToggleCameraLock \/ ResetRoom \/ LoadDesign
  \/ Undo \/ Redo

\* The store under every sequence of its operations.
SpecStore == InitStore /\ [][NextStore]_vars

\* ---------------------------------------------------------------- claims

\* The little-endian u32 a reader of the container finds at offset off.
GetUint32LE(buf, off) ==
  buf[off + 1] + 256 * buf[off + 2] + 65536 * buf[off + 3] + 16777216 * buf[off + 4]

\* The last call of convertToGlb has ended, and how.
Succeeded == conv.pc = "done" /\ conv.locals.outcome = "success"

Failed == conv.pc = "done" /\ conv.locals.outcome = "error"

\* The bytes of the result blob.
Out == glbBlob[1].bytes

\* What the .gltf file the call read parses to (None: not JSON).
InputDoc == FindGltf(conv.files)[1].file.doc

\* The payload set: the contents supplied under a name.
PayloadsNamed(name) ==
  {conv.files[i].file.bytes :
     i \in {j \in 1..Len(conv.files) :
              conv.files[j].type # "gltf" /\ conv.files[j].file.name = name}}

\* The buffers list of a document, empty when the member is absent.
BuffersOf(doc) == IF doc.buffers = None THEN <<>> ELSE doc.buffers[1]

ImagesOf(doc) == IF doc.images = None THEN <<>> ELSE doc.images[1]

\* The buffers of the input that name an external payload, in array order.
ReferencedUris ==
  LET bs == BuffersOf(InputDoc[1])
  IN  Flatten([i \in 1..Len(bs) |->
                 IF bs[i].uri # None /\ bs[i].uri[1] # <<>>
                 THEN <<bs[i].uri[1]>> ELSE <<>>])

AllBuffersResolve ==
  /\ InputDoc # None
  /\ \A i \in 1..Len(ReferencedUris) : PayloadsNamed(ReferencedUris[i]) # {}

\* The payload the i-th referenced buffer resolves to.
ResolvedPayload(i) == CHOOSE b \in PayloadsNamed(ReferencedUris[i]) : TRUE

RECURSIVE SumOfLengths(_)
\* The byte lengths of the first n resolved payloads, added up.
SumOfLengths(n) ==
  IF n = 0 THEN 0 ELSE SumOfLengths(n - 1) + Len(ResolvedPayload(n))

\* The output holds bytes after its JSON chunk.
HasBinChunk == Len(Out) > 20 + GetUint32LE(Out, 12)

\* C1: after every successful conversion the totalLength in the header is
\* 12 + 8 + paddedJsonLength, plus 8 + paddedBinLength exactly when there is a
\* binary chunk; it is the length of the output buffer, and the writes end
\* at it: header, JSON chunk and binary chunk lie back to back.
C1_TotalLength ==
  Succeeded =>
    LET l == conv.locals
        expected == 12 + 8 + l.paddedJsonLength
                    + (IF Len(l.combinedBuffer) > 0 THEN 8 + l.paddedBinLength ELSE 0)
    IN  /\ GetUint32LE(Out, 8) = expected
        /\ Len(Out) = expected
        /\ l.writeOffset = expected
        /\ GetUint32LE(Out, 12) = l.paddedJsonLength
        /\ Len(l.combinedBuffer) > 0 =>
             GetUint32LE(Out, 20 + l.paddedJsonLength) = l.paddedBinLength

\* C1's case: a conversion that wrote a binary chunk with padding.
C1_Witness ==
  /\ Succeeded
  /\ conv.locals.binPadding > 0
  /\ conv.locals.jsonPadding > 0
  /\ Len(Out) = 20 + conv.locals.paddedJsonLength + 8 + conv.locals.paddedBinLength

\* C2: the output holds a binary chunk exactly when the aggregated binary
\* region is not empty; when the document's buffers list is absent or empty
\* the buffers member is left as it was, nothing follows the JSON chunk and
\* totalLength is 12 + 8 + paddedJsonLength.
C2_BinChunkIffRegion ==
  Succeeded =>
    /\ HasBinChunk <=> SumOfLengths(Len(ReferencedUris)) > 0
    /\ BuffersOf(InputDoc[1]) = <<>> =>
         /\ conv.locals.gltf[1].buffers = InputDoc[1].buffers
         /\ ~HasBinChunk
         /\ GetUint32LE(Out, 8) = 12 + 8 + GetUint32LE(Out, 12)
         /\ Len(Out) = 12 + 8 + conv.locals.paddedJsonLength

\* C2's case: a document with an empty buffers list (and images) was packed.
C2_Witness ==
  /\ Succeeded
  /\ InputDoc[1].buffers = Some(<<>>)
  /\ Len(ImagesOf(InputDoc[1])) > 0
  /\ ~HasBinChunk

\* C3: when the document has at least one buffer and every uri its buffers
\* name resolves, the pack succeeds and leaves a buffers list of exactly one
\* descriptor, without uri, whose byteLength is the sum of the byte lengths
\* of the resolved payloads; that sum is the length of the binary chunk data
\* before padding.
C3_SingleBufferDescriptor ==
  (conv.pc = "done" /\ AllBuffersResolve /\ Len(BuffersOf(InputDoc[1])) >= 1) =>
    /\ Succeeded
    /\ conv.locals.gltf[1].buffers =
         Some(<<[uri |-> None, byteLength |-> SumOfLengths(Len(ReferencedUris))]>>)
    /\ Len(conv.locals.combinedBuffer) = SumOfLengths(Len(ReferencedUris))
    /\ HasBinChunk =>
         Len(Out) - (20 + GetUint32LE(Out, 12) + 8) - conv.locals.binPadding
           = SumOfLengths(Len(ReferencedUris))

\* C3's case: two buffers resolved to payloads of 3 and 10 bytes, neither
\* the declared byteLength.
C3_Witness ==
  /\ Succeeded
  /\ Len(BuffersOf(InputDoc[1])) = 2
  /\ Len(ReferencedUris) = 2
  /\ SumOfLengths(2) = 13
  /\ BuffersOf(conv.locals.gltf[1])[1].byteLength = 13

\* C4: the aggregated binary region is the resolved payloads concatenated
\* in buffers order: the i-th payload lies unchanged in the binary chunk
\* data at the offset that is the sum of the lengths of the payloads before it.
C4_Concatenation ==
  Succeeded =>
    LET n == Len(ReferencedUris)
        data == 20 + GetUint32LE(Out, 12) + 8
    IN  /\ conv.locals.combinedBuffer = Flatten([i \in 1..n |-> ResolvedPayload(i)])
        /\ \A i \in 1..n :
             Len(ResolvedPayload(i)) > 0 =>
               SubSeq(Out, data + SumOfLengths(i - 1) + 1, data + SumOfLengths(i))
                 = ResolvedPayload(i)

\* C4's case: two different non-empty payloads were packed one after the other.
C4_Witness ==
  /\ Succeeded
  /\ Len(ReferencedUris) >= 2
  /\ Len(ResolvedPayload(1)) > 0
  /\ Len(ResolvedPayload(2)) > 0
  /\ ResolvedPayload(1) # ResolvedPayload(2)

\* The referenced buffer uris that no payload carries, in array order.
MissingUris ==
  Flatten([i \in 1..Len(ReferencedUris) |->
             IF PayloadsNamed(ReferencedUris[i]) = {}
             THEN <<ReferencedUris[i]>> ELSE <<>>])

\* No run of convertToGlb has left an output: no buffer allocated or written,
\* no result blob.
NoOutput ==
  /\ conv.locals.glbBuffer = None
  /\ conv.locals.totalLength = 0
  /\ conv.locals.writeOffset = 0
  /\ glbBlob = None
  /\ glbName = <<>>

\* C5 as stated: if any buffers[i].uri has no payload of exactly that name,
\* the conversion fails with a message naming the file and emits no output.
C5_AnyUnmatchedUriAborts ==
  (/\ conv.pc = "done"
   /\ InputDoc # None
   /\ \E i \in 1..Len(BuffersOf(InputDoc[1])) :
        /\ BuffersOf(InputDoc[1])[i].uri # None
        /\ PayloadsNamed(BuffersOf(InputDoc[1])[i].uri[1]) = {})
  => (Failed /\ NoOutput)

\* C5, amended: if any buffers[i].uri is a non-empty string with no payload
\* of exactly that name, the conversion fails with a message naming the first
\* such file and emits no output.
C5_MissingBufferAborts ==
  (conv.pc = "done" /\ InputDoc # None /\ MissingUris # <<>>) =>
    /\ Failed
    /\ toast = Some([level |-> "error",
                     text |-> "Conversion failed: Missing buffer file: ",
                     arg |-> MissingUris[1]])
    /\ NoOutput

\* C5's case: the second buffer of two is missing, the first resolved.
C5_Witness ==
  /\ Failed
  /\ InputDoc # None
  /\ Len(ReferencedUris) = 2
  /\ PayloadsNamed(ReferencedUris[1]) # {}
  /\ PayloadsNamed(ReferencedUris[2]) = {}
  /\ ~converting

\* An image uri that is no data URI and that no payload carries.
UnmatchedImage(uri) ==
  uri # None /\ ~StartsWith(uri[1], DataPrefix) /\ PayloadsNamed(uri[1]) = {}

\* An image uri that is no data URI and that a payload carries.
MatchedImage(uri) ==
  uri # None /\ ~StartsWith(uri[1], DataPrefix) /\ PayloadsNamed(uri[1]) # {}

\* C6: an image uri that is no data URI and has no matching payload does
\* not abort the conversion: whenever the buffers resolve an output is
\* produced, that image's uri is as it was, and every image that does
\* resolve is still inlined.
C6_MissingImageTolerated ==
  (conv.pc = "done" /\ AllBuffersResolve) =>
    /\ Succeeded
    /\ Len(ImagesOf(conv.locals.gltf[1])) = Len(ImagesOf(InputDoc[1]))
    /\ \A i \in 1..Len(ImagesOf(InputDoc[1])) :
         LET before == ImagesOf(InputDoc[1])[i].uri
             after  == ImagesOf(conv.locals.gltf[1])[i].uri
         IN  /\ UnmatchedImage(before) => after = before
             /\ MatchedImage(before) =>
                  after # before /\ StartsWith(after[1], DataPrefix)

\* C6's case: a missing image before one that resolves, and a buffer packed.
C6_Witness ==
  /\ Succeeded
  /\ HasBinChunk
  /\ Len(ImagesOf(InputDoc[1])) = 2
  /\ UnmatchedImage(ImagesOf(InputDoc[1])[1].uri)
  /\ ImagesOf(InputDoc[1])[1].uri[1] # <<>>
  /\ MatchedImage(ImagesOf(InputDoc[1])[2].uri)

\* C7 as stated: a buffer whose uri is a data URI is not looked up, so a
\* document whose other buffer uris all resolve is never failed as holding
\* an unresolved buffer.
C7_DataUriBufferNotLookedUp ==
  (/\ conv.pc = "done"
   /\ InputDoc # None
   /\ \A i \in 1..Len(ReferencedUris) :
        \/ StartsWith(ReferencedUris[i], DataPrefix)
        \/ PayloadsNamed(ReferencedUris[i]) # {})
  => Succeeded

\* C8: each chunk is padded on its own by (4 - (len % 4)) % 4 bytes: the
\* JSON chunkLength is the UTF-8 length of the JSON text plus its padding,
\* the text is followed by that many spaces; the binary chunkLength is the
\* aggregated length plus its padding, the data is followed by that many
\* zero bytes; text and data are as written.
C8_ChunkPadding ==
  Succeeded =>
    LET json == TextEncode(JSONstringify(conv.locals.gltf[1]))
        jpad == (4 - (Len(json) % 4)) % 4
        bin  == conv.locals.combinedBuffer
        bpad == (4 - (Len(bin) % 4)) % 4
        base == 20 + Len(json) + jpad
    IN  /\ GetUint32LE(Out, 12) = Len(json) + jpad
        /\ SubSeq(Out, 21, 20 + Len(json)) = json
        /\ \A i \in 1..jpad : Out[20 + Len(json) + i] = 32
        /\ IF Len(bin) > 0
           THEN /\ GetUint32LE(Out, base) = Len(bin) + bpad
                /\ SubSeq(Out, base + 9, base + 8 + Len(bin)) = bin
                /\ \A i \in 1..bpad : Out[base + 8 + Len(bin) + i] = 0
                /\ Len(Out) = base + 8 + Len(bin) + bpad
           ELSE Len(Out) = base

\* C8's case: a JSON text longer in UTF-8 than in characters, and both
\* chunks padded.
C8_Witness ==
  /\ Succeeded
  /\ Len(conv.locals.gltfJsonBuffer) > Len(JSONstringify(conv.locals.gltf[1]))
  /\ conv.locals.jsonPadding > 0
  /\ conv.locals.binPadding > 0
  /\ Out[Len(Out)] = 0

\* C9: 12 + 8 + paddedJsonLength is a multiple of 4, and so is
\* paddedBinLength when there is a binary chunk: every chunk header starts
\* on a 4-byte boundary and totalLength is a multiple of 4.
C9_Alignment ==
  Succeeded =>
    /\ (12 + 8 + GetUint32LE(Out, 12)) % 4 = 0
    /\ conv.locals.paddedJsonLength % 4 = 0
    /\ HasBinChunk =>
         /\ GetUint32LE(Out, 20 + GetUint32LE(Out, 12)) % 4 = 0
         /\ conv.locals.paddedBinLength % 4 = 0
    /\ GetUint32LE(Out, 8) % 4 = 0
    /\ Len(Out) % 4 = 0

\* C9's case: a JSON text and a binary region that both needed padding.
C9_Witness ==
  /\ Succeeded
  /\ HasBinChunk
  /\ Len(conv.locals.gltfJsonBuffer) % 4 = 1
  /\ Len(conv.locals.combinedBuffer) % 4 = 3

\* C10: after every successful conversion bytes 0-3 read 0x46546C67 as a
\* little-endian u32, bytes 4-7 read 2, the u32 at offset 16 reads
\* 0x4E4F534A and, with a binary chunk, the u32 at offset
\* 20 + paddedJsonLength + 4 reads 0x004E4942.
C10_MagicNumbers ==
  Succeeded =>
    /\ GetUint32LE(Out, 0) = 1179937895
    /\ SubSeq(Out, 1, 4) = <<103, 108, 84, 70>>
    /\ GetUint32LE(Out, 4) = 2
    /\ GetUint32LE(Out, 16) = 1313821514
    /\ Len(conv.locals.combinedBuffer) > 0 =>
         GetUint32LE(Out, 20 + conv.locals.paddedJsonLength + 4) = 5130562

\* C10's case: an output with both chunk type tags.
C10_Witness ==
  /\ Succeeded
  /\ Len(conv.locals.combinedBuffer) > 0
  /\ SubSeq(Out, 17, 20) = <<74, 83, 79, 78>>
  /\ SubSeq(Out, 20 + conv.locals.paddedJsonLength + 5,
            20 + conv.locals.paddedJsonLength + 8) = <<66, 73, 78, 0>>

\* An image uri that is a data URI.
DataUriOf(uri) == uri # None /\ StartsWith(uri[1], DataPrefix)

\* C11: an image whose uri begins with "data:" has the same uri in the
\* document the output carries, whether or not a file of that name is among
\* the payloads; the images list keeps its length and order.
C11_DataUriImageKept ==
  Succeeded =>
    /\ Len(ImagesOf(conv.locals.gltf[1])) = Len(ImagesOf(InputDoc[1]))
    /\ \A i \in 1..Len(ImagesOf(InputDoc[1])) :
         DataUriOf(ImagesOf(InputDoc[1])[i].uri) =>
           ImagesOf(conv.locals.gltf[1])[i].uri = ImagesOf(InputDoc[1])[i].uri

\* C11's case: a data-URI image packed next to an image that was inlined,
\* with a payload whose name is that data URI among the files.
C11_Witness ==
  /\ Succeeded
  /\ PayloadsNamed(DataUriImage) # {}
  /\ Len(ImagesOf(InputDoc[1])) = 2
  /\ MatchedImage(ImagesOf(InputDoc[1])[1].uri)
  /\ ImagesOf(InputDoc[1])[2].uri = Some(DataUriImage)
  /\ ImagesOf(conv.locals.gltf[1])[2].uri = Some(DataUriImage)

\* A name has extension ext: it ends with '.' and ext, in either case of
\* letters (a name without any '.' counts as being its own extension).
HasExtension(name, ext) ==
  \/ /\ Len(name) > Len(ext)
     /\ toLowerCase(SubSeq(name, Len(name) - Len(ext), Len(name))) = <<46>> \o ext
  \/ /\ DotPositions(name) = {}
     /\ toLowerCase(name) = ext

\* The MIME type C12 gives for a uri.
ExpectedMime(uri) ==
  IF HasExtension(uri, <<112, 110, 103>>) THEN MimePng
  ELSE IF HasExtension(uri, <<106, 112, 103>>)
          \/ HasExtension(uri, <<106, 112, 101, 103>>) THEN MimeJpeg
  ELSE IF HasExtension(uri, <<119, 101, 98, 112>>) THEN MimeWebp
  ELSE MimeOctet

\* The value of a base64 character ('=' counts 0).
B64Value(c) ==
  IF c >= 65 /\ c <= 90 THEN c - 65
  ELSE IF c >= 97 /\ c <= 122 THEN c - 71
  ELSE IF c >= 48 /\ c <= 57 THEN c + 4
  ELSE IF c = 43 THEN 62
  ELSE IF c = 47 THEN 63
  ELSE 0

\* The bytes a base64 text of whole groups decodes to.
DecodeBase64(text) ==
  Flatten([k \in 1..(Len(text) \div 4) |->
    LET c == SubSeq(text, 4 * k - 3, 4 * k)
        n == B64Value(c[1]) * 262144 + B64Value(c[2]) * 4096
             + B64Value(c[3]) * 64 + B64Value(c[4])
        three == <<n \div 65536, (n \div 256) % 256, n % 256>>
    IN  IF c[3] = 61 THEN SubSeq(three, 1, 1)
        ELSE IF c[4] = 61 THEN SubSeq(three, 1, 2)
        ELSE three])

PleaseAddGltf ==
  Some([level |-> "error", text |-> "Please add a .gltf file", arg |-> <<>>])

\* C13: a call of convertToGlb on a list without a .gltf file shows the
\* error toast and does nothing else: converting is not set, no read is
\* begun, the file list and the previous result stay as they are.
C13_NoSourceAborts ==
  [][(ConvertCall /\ gltfCount(files) = 0) =>
       /\ toast' = PleaseAddGltf
       /\ converting' = converting
       /\ conv' = conv
       /\ inFlight' = inFlight
       /\ files' = files
       /\ glbBlob' = glbBlob
       /\ glbName' = glbName]_vars

\* C13's case: the call was refused while an earlier result was on offer.
C13_Witness ==
  /\ toast = PleaseAddGltf
  /\ gltfCount(files) = 0
  /\ Len(files) > 0
  /\ glbBlob # None
  /\ ~converting
  /\ conv.pc = "done"

\* C14: when the text of the .gltf file is not JSON, the conversion ends in
\* failure with an error toast that carries the parser's message; the run
\* allocates no output buffer and sets no result blob, and converting is
\* back to false.
C14_MalformedSourceFails ==
  (conv.pc = "done" /\ InputDoc = None) =>
    /\ Failed
    /\ conv.locals.error # None
    /\ toast = Some([level |-> "error",
                     text |-> "Conversion failed: " \o conv.locals.error[1].text,
                     arg |-> <<>>])
    /\ conv.locals.error[1].text = "SyntaxError"
    /\ NoOutput
    /\ ~converting

\* C14's case: a malformed source failed with payloads at hand.
C14_Witness ==
  /\ Failed
  /\ InputDoc = None
  /\ Len(conv.files) > 1
  /\ toast # None
  /\ toast[1].level = "error"
  /\ glbBlob = None

JsonChunkData == SubSeq(Out, 21, 20 + GetUint32LE(Out, 12))

\* A byte sequence occurs in another.
Contains(bytes, part) ==
  \E i \in 1..(Len(bytes) - Len(part) + 1) :
    SubSeq(bytes, i, i + Len(part) - 1) = part

\* A name as a JSON string in UTF-8 (the names here need no escapes).
QuotedBytes(name) == TextEncode(<<34>> \o name \o <<34>>)

\* "buffers":[{"byteLength":n}]
CollapsedBuffersText(n) ==
  TextEncode(<<34, 98, 117, 102, 102, 101, 114, 115, 34, 58, 91, 123, 34, 98, 121,
               116, 101, 76, 101, 110, 103, 116, 104, 34, 58>>
             \o NumberToString(n) \o <<125, 93>>)

\* C16: the JSON text of the output is that of the document after buffer
\* resolution, image inlining and the collapse of the buffers list: with at
\* least one buffer it holds "buffers":[{"byteLength":total}], it holds the
\* data URI of every inlined image, and it holds neither the uri of a
\* resolved buffer nor that of a resolved external image.
C16_JsonTextAfterPipeline ==
  Succeeded =>
    /\ Len(BuffersOf(InputDoc[1])) >= 1 =>
         Contains(JsonChunkData,
                  CollapsedBuffersText(SumOfLengths(Len(ReferencedUris))))
    /\ \A i \in 1..Len(ReferencedUris) :
         ~Contains(JsonChunkData, QuotedBytes(ReferencedUris[i]))
    /\ \A i \in 1..Len(ImagesOf(InputDoc[1])) :
         LET before == ImagesOf(InputDoc[1])[i].uri
         IN  MatchedImage(before) =>
               /\ ~Contains(JsonChunkData, QuotedBytes(before[1]))
               /\ Contains(JsonChunkData,
                           TextEncode(<<34>> \o DataPrefix \o ExpectedMime(before[1])
                                      \o Base64Tag
                                      \o arrayBufferToBase64(
                                           CHOOSE b \in PayloadsNamed(before[1]) : TRUE)
                                      \o <<34>>))

\* C16's case: a resolved buffer and a resolved image with a name outside
\* ASCII were packed into one output.
C16_Witness ==
  /\ Succeeded
  /\ HasBinChunk
  /\ Len(ReferencedUris) >= 1
  /\ \E i \in 1..Len(ImagesOf(InputDoc[1])) :
       ImagesOf(InputDoc[1])[i].uri = Some(NameJpg)
  /\ PayloadsNamed(NameJpg) # {}

\* The kinds under which the non-gltf files of a name were classified.
KindsNamed(name) ==
  {conv.files[i].type :
     i \in {j \in 1..Len(conv.files) :
              conv.files[j].type # "gltf" /\ conv.files[j].file.name = name}}

\* C17: every file of the list has exactly one of the kinds gltf, bin and
\* texture, by its extension (gltf for .gltf, bin for .bin, in either case of
\* letters, texture for anything else); a conversion takes every file that
\* is not of kind gltf as a payload under its name, whichever of the two
\* other kinds it has: a buffer uri resolves to the bytes of the file of
\* that name, an image uri is inlined from them, and only a uri no such file
\* carries (the name of a .gltf file too) is missing.
C17_ClassificationAndPayloads ==
  /\ \A i \in 1..Len(files) :
       /\ files[i].type \in {"gltf", "bin", "texture"}
       /\ files[i].type = "gltf" <=> HasExtension(files[i].file.name, <<103, 108, 116, 102>>)
       /\ files[i].type = "bin" <=> HasExtension(files[i].file.name, <<98, 105, 110>>)
  /\ (conv.pc = "done" /\ InputDoc # None) =>
       /\ (\A k \in 1..Len(ReferencedUris) : PayloadsNamed(ReferencedUris[k]) # {}) =>
            /\ Succeeded
            /\ Len(conv.locals.bufferDatas) = Len(ReferencedUris)
            /\ \A k \in 1..Len(ReferencedUris) :
                 conv.locals.bufferDatas[k] \in PayloadsNamed(ReferencedUris[k])
       /\ (\E k \in 1..Len(ReferencedUris) : PayloadsNamed(ReferencedUris[k]) = {}) =>
            Failed
       /\ Succeeded =>
            \A i \in 1..Len(ImagesOf(InputDoc[1])) :
              LET before == ImagesOf(InputDoc[1])[i].uri
                  after  == ImagesOf(conv.locals.gltf[1])[i].uri
                  head   == DataPrefix \o ExpectedMime(before[1]) \o Base64Tag
              IN  MatchedImage(before) =>
                    /\ StartsWith(after[1], head)
                    /\ DecodeBase64(SubSeq(after[1], Len(head) + 1, Len(after[1])))
                         \in PayloadsNamed(before[1])

\* C17's case: a buffer resolved from a file classified texture and an image
\* inlined from a file classified bin, in one conversion.
C17_Witness ==
  /\ Succeeded
  /\ Len(ReferencedUris) = 1
  /\ KindsNamed(ReferencedUris[1]) = {"texture"}
  /\ conv.locals.bufferDatas[1] \in PayloadsNamed(ReferencedUris[1])
  /\ Len(ImagesOf(InputDoc[1])) = 1
  /\ MatchedImage(ImagesOf(InputDoc[1])[1].uri)
  /\ KindsNamed(ImagesOf(InputDoc[1])[1].uri[1]) = {"bin"}
  /\ StartsWith(ImagesOf(conv.locals.gltf[1])[1].uri[1], DataPrefix)

\* C18 as stated: whenever a result is offered for download, it is what
\* converting the files now in the list gives, under every interleaving of
\* selections and removals with a conversion in flight.
C18_ResultIsOfCurrentFiles ==
  glbBlob # None =>
    /\ gltfCount(files) > 0
    /\ TryBlock(files).outcome = "success"
    /\ glbBlob[1].bytes = TryBlock(files).glbBuffer[1]
    /\ glbName = BaseName(FindGltf(files)[1].file.name)

\* C19: a call of convertToGlb that finds a source document sets converting
\* as it begins its reads, and the end of the call resets it, in success and
\* in failure alike: converting is true exactly while a call is suspended
\* at its reads.  Convert is disabled meanwhile, so no two calls are ever in
\* flight.
C19_ConvertingSetAndReset ==
  /\ [](inFlight \in {0, 1})
  /\ [](converting <=> inFlight = 1)
  /\ [](converting <=> conv.pc = "reading")
  /\ [][(inFlight' = inFlight + 1) => (~converting /\ converting')]_vars
  /\ [][(inFlight' = inFlight - 1) =>
          (converting /\ ~converting'
           /\ conv'.locals.outcome \in {"success", "error"})]_vars

\* C19's case: a conversion has ended in failure and converting is false
\* again, the list still holding the source document.
C19_Witness ==
  /\ Failed
  /\ ~converting
  /\ inFlight = 0
  /\ gltfCount(files) > 0
  /\ toast # None
  /\ toast[1].level = "error"

\* The design data of a store: what a snapshot and a saved design hold.
DesignOf(state) ==
  [dimensions |-> state.dimensions, openings |-> state.openings,
   furniture |-> state.furniture, wallColors |-> state.wallColors,
   wallTextures |-> state.wallTextures, floorColor |-> state.floorColor,
   ceilingColor |-> state.ceilingColor]

\* C20 as stated: wherever undo has an action to revert, undo followed at
\* once by redo leaves the design data (dimensions, openings, furniture, wall
\* colours and textures, floor and ceiling colours) as it was before the undo.
C20_UndoThenRedoRestores ==
  store.historyIndex >= 0 =>
    DesignOf(redo(undo(store))) = DesignOf(store)

\* C21: a step of any history-saving action (setDimensions, addOpening,
\* updateOpening, removeOpening, addFurniture, removeFurniture, setWallColor,
\* setWallTexture, setFloorColor, setCeilingColor, resetRoom, loadDesign)
\* leaves a store whose undo has the design data the store had just before
\* that step; in every reachable state, after earlier undos and redos and
\* with the history full as well.
C21_UndoRevertsSavingAction ==
  [][saveCount' = saveCount + 1 =>
       DesignOf(undo(store')) = DesignOf(store)]_vars

\* A saving action has acted on a full history: the oldest snapshot is gone,
\* the newest is the design before the action, which the action changed.
C21_Witness ==
  /\ saveCount = MaxSaves
  /\ Len(store.history) = MAX_HISTORY
  /\ store.historyIndex = MAX_HISTORY - 1
  /\ store.history[1].floorColor # defaultFloorColor
  /\ DesignOf(undo(store)) # DesignOf(store)

\* C22: after any sequence of store operations the history holds at most
\* MAX_HISTORY (50) snapshots and -1 <= historyIndex <= history.length - 1;
\* a saving action on a full history whose index is at its end drops the
\* oldest snapshot, appends the snapshot of the state before the action and
\* leaves historyIndex pointing at it.
C22_HistoryWithinLimit ==
  /\ [](/\ Len(store.history) <= MAX_HISTORY
        /\ -1 <= store.historyIndex
        /\ store.historyIndex <= Len(store.history) - 1)
  /\ [][(/\ saveCount' = saveCount + 1
         /\ Len(store.history) = MAX_HISTORY
         /\ store.historyIndex = MAX_HISTORY - 1)
        => /\ store'.history = Append(Tail(store.history), DesignOf(store))
           /\ store'.historyIndex = MAX_HISTORY - 1]_vars

\* The limit was exceeded: the snapshot of the store as constructed has been
\* dropped from the front, the list is full and the index is at its end.
C22_Witness ==
  /\ Len(store.history) = MAX_HISTORY
  /\ store.historyIndex = Len(store.history) - 1
  /\ store.history[1] = DesignOf(setFloorColor(InitialStore, "#222222"))
  /\ store.history[MAX_HISTORY] # store.history[MAX_HISTORY - 1]

\* C23: in every reachable state undo changes the store if and only if
\* canUndo() is true, and redo changes the store if and only if canRedo() is
\* true: the two buttons are enabled exactly when their operation acts.
C23_ButtonsEnabledIffEffect ==
  /\ (undo(store) # store) <=> canUndo(store)
  /\ (redo(store) # store) <=> canRedo(store)

\* Two undos below two snapshots: redo is enabled and acts, undo is disabled
\* and does nothing.
C23_Witness ==
  /\ canRedo(store)
  /\ redo(store) # store
  /\ ~canUndo(store)
  /\ undo(store) = store
  /\ Len(store.history) >= 2

\* C24: a step of updateFurniture pushes no snapshot: history and
\* historyIndex stay as they were, as does every store field but furniture;
\* furniture keeps its length and order, and the items that changed all have
\* the one id the call was given.
C24_UpdateFurnitureFrame ==
  [][UpdateFurniture =>
       /\ store'.history = store.history
       /\ store'.historyIndex = store.historyIndex
       /\ [store' EXCEPT !.furniture = store.furniture] = store
       /\ Len(store'.furniture) = Len(store.furniture)
       /\ \E id \in IdsIn(store.furniture) :
            \A i \in 1..Len(store.furniture) :
              store'.furniture[i] # store.furniture[i] =>
                /\ store.furniture[i].id = id
                /\ store'.furniture[i].id = id]_vars

\* The first item of the loaded design was recoloured: the second item is as
\* loaded and the history still holds the one snapshot loadDesign pushed.
C24_Witness ==
  /\ Len(store.furniture) = 2
  /\ store.furniture[1] = Merge(SavedDesign.furniture[1], [color |-> "#336699"])
  /\ store.furniture[1] # SavedDesign.furniture[1]
  /\ store.furniture[2] = SavedDesign.furniture[2]
  /\ store.history = <<DesignOf(InitialStore)>>
  /\ store.historyIndex = 0

\* C25: a step of resetRoom leaves dimensions, showGrid and cameraLocked as
\* they were and clears the rest of the design: openings and furniture are
\* empty, selectedFurnitureId is null, and the wall colours, wall textures,
\* floor colour and ceiling colour are the defaults.
C25_ResetRoomFrame ==
  [][ResetRoom =>
       /\ store'.dimensions = store.dimensions
       /\ store'.showGrid = store.showGrid
       /\ store'.cameraLocked = store.cameraLocked
       /\ store'.openings = <<>>
       /\ store'.furniture = <<>>
       /\ store'.selectedFurnitureId = None
       /\ store'.wallColors = defaultWallColors
       /\ store'.wallTextures = defaultWallTextures
       /\ store'.floorColor = defaultFloorColor
       /\ store'.ceilingColor = defaultCeilingColor]_vars

\* The loaded design was reset with the grid hidden and the camera locked:
\* the room keeps the loaded dimensions and both switches, the rest is as in
\* a new store, and the newest snapshot is the loaded design.
C25_Witness ==
  /\ store.dimensions = SavedDesign.dimensions
  /\ store.dimensions # None
  /\ ~store.showGrid
  /\ store.cameraLocked
  /\ [DesignOf(store) EXCEPT !.dimensions = None] = DesignOf(InitialStore)
  /\ store.selectedFurnitureId = None
  /\ store.historyIndex = 1
  /\ store.history[2] = SavedDesign

\* C26: with selectFurniture called only with null or the id of an item of
\* furniture at that time, after any sequence of addFurniture,
\* updateFurniture, removeFurniture, resetRoom, loadDesign, undo and redo
\* (and of the other store operations) selectedFurnitureId is null or the id
\* of an item now in furniture.
C26_SelectionIsPresent ==
  \/ store.selectedFurnitureId = None
  \/ store.selectedFurnitureId[1] \in IdsIn(store.furniture)

\* The sofa of the loaded design was selected and the bed then removed: the
\* selection is kept and names the one item left.
C26_Witness ==
  /\ store.selectedFurnitureId = Some(SavedDesign.furniture[2].id)
  /\ IdsIn(store.furniture) = {SavedDesign.furniture[2].id}
  /\ Len(store.history) = 2
  /\ Len(store.history[2].furniture) = 2

=============================================================================
